---- MODULE Spec2Model ----
(***************************************************************************)
(* mini-tree: a generic N-ary tree (src/src/index.ts).                     *)
(*                                                                         *)
(* Node objects live in a heap (a sequence of TreeNode records); a node    *)
(* reference is its index in the heap and 0 stands for `undefined`.  A     *)
(* node that has been detached from the tree stays in the heap as long as  *)
(* the caller holds a reference to it (held) and may pass it as `root`;    *)
(* a node nothing refers to any more is garbage and its record is reset.   *)
(***************************************************************************)
EXTENDS Integers, Sequences, FiniteSets

\* ---- bounds of the model ----
MaxNodes == 4        \* TreeNode objects ever constructed in one behaviour
MaxVal == 2          \* values are 0..MaxVal
MaxHeld == 1         \* node references the caller keeps at the same time
MaxAll == 2          \* length of the array given to addAll
MaxDebt == 1         \* count is followed down to -MaxDebt
MaxPath == 6         \* path strings are the codes 1..MaxPath (see Str)

\* ---- program constants ----
NoNode == 0          \* `undefined` where a TreeNode is expected
Undefined == -1      \* the value `undefined` (not a member of Values)

Values == 0..MaxVal
RootValues == {0}
CompNames == {"always", "gt"}
EqNames == {"same", "mod2"}

VARIABLES heap, root, count, f_comp, f_eq, f_addComp, f_addEq, held, last, log, created, ret

vars == <<heap, root, count, f_comp, f_eq, f_addComp, f_addEq, held, last, log, created, ret>>

\* ---- TreeNode ----

TreeNode(id, value, parent) ==
  [id |-> id, value |-> value, parent |-> parent,
   children |-> <<>>, childCount |-> 0, total |-> 0]

leaf(h, n) == h[n].childCount = 0

RECURSIVE SelfAndAncestors(_, _)
SelfAndAncestors(h, n) ==
  IF n = NoNode THEN {} ELSE {n} \cup SelfAndAncestors(h, h[n].parent)

\* NodeAdd with the child put first (unshift for push)
NodeAdd_Unshift(h, n, id, value) ==
  LET new == Len(h) + 1
      h1 == Append(h, TreeNode(id, value, n))
      up == SelfAndAncestors(h, n)
  IN [i \in 1..new |->
        IF i = n THEN [h1[i] EXCEPT !.children = <<new>> \o @,
                                    !.childCount = @ + 1, !.total = @ + 1]
        ELSE IF i \in up THEN [h1[i] EXCEPT !.total = @ + 1]
        ELSE h1[i]]

\* TreeNode.add: push the child, childCount++, total++ on this and every ancestor
NodeAdd(h, n, id, value) ==
  LET new == Len(h) + 1
      h1 == Append(h, TreeNode(id, value, n))
      up == SelfAndAncestors(h, n)
  IN [i \in 1..new |->
        IF i = n THEN [h1[i] EXCEPT !.children = Append(@, new),
                                    !.childCount = @ + 1, !.total = @ + 1]
        ELSE IF i \in up THEN [h1[i] EXCEPT !.total = @ + 1]
        ELSE h1[i]]

\* TreeNode.childOf: this.parent?.id === node.id
TreeNodeChildOf(h, n, node) ==
  h[n].parent # NoNode /\ h[h[n].parent].id = h[node].id

\* TreeNode.parentOf: the first childCount children are compared by id
TreeNodeParentOf(h, n, node) ==
  \E i \in 1..h[n].childCount : h[h[n].children[i]].id = h[node].id

\* ---- comparators ----

defaultEq(nodeValue, value) == nodeValue = value
defaultComp(nodeValue, value) == TRUE

\* ---- strings ----
\* A tree of paths holds strings over the two characters "/" and "a".  A
\* string is held as its code, a natural number: 0 is the empty string, 1 "/",
\* 2 "a", 3 "//", 4 "/a", 5 "a/", 6 "aa", 7 "///", ...

RECURSIVE Str(_)
\* the string with code k, as the sequence of its characters
Str(k) ==
  IF k = 0 THEN <<>>
  ELSE Append(Str((k - 1) \div 2), IF (k - 1) % 2 = 0 THEN "/" ELSE "a")

\* String.prototype.includes: part occurs in whole as a run of consecutive
\* characters
includes(whole, part) ==
  \E k \in 0..(Len(whole) - Len(part)) : SubSeq(whole, k + 1, k + Len(part)) = part

PathValues == 1..MaxPath

\* a TreeComparator the caller supplies, by name; comparisons with the
\* value `undefined` are false, as in JavaScript
Holds(p, h, n, value) ==
  LET nv == h[n].value IN
  CASE p = "always" -> defaultComp(nv, value)
    [] p = "same" -> defaultEq(nv, value)
    [] p = "gt" -> nv # Undefined /\ value > nv
    [] p = "mod2" -> nv # Undefined /\ (value % 2) = (nv % 2)
    [] p = "includes" -> nv # Undefined /\ includes(Str(value), Str(nv))

\* ---- Tree: the mutable part threaded through an operation ----
\* Three variables record the last operation that wrote to the tree:
\* last, the call; log, one entry per removeMeta call it made; created, the
\* nodes it constructed.

TreeState == [heap |-> heap, root |-> root, count |-> count,
              log |-> <<>>, created |-> <<>>]

\* ---- Tree.add ----

\* TreeAddNew with the id taken after the increment (++count for count++)
TreeAddNew_PreIncrement(st, r, value) ==
  [st EXCEPT !.heap = NodeAdd(st.heap, r, st.count + 1, value),
             !.count = st.count + 1,
             !.created = Append(@, Len(st.heap) + 1)]

TreeAddNew(st, r, value) ==
  [st EXCEPT !.heap = NodeAdd(st.heap, r, st.count, value),
             !.count = st.count + 1,
             !.created = Append(@, Len(st.heap) + 1)]

RECURSIVE TreeAdd(_, _, _, _, _), TreeAddLoop(_, _, _, _, _, _)
TreeAdd(st, aeq, acomp, value, r) ==
  IF Holds(aeq, st.heap, r, value) THEN st
  ELSE IF ~leaf(st.heap, r) THEN TreeAddLoop(st, aeq, acomp, value, r, 1)
  ELSE TreeAddNew(st, r, value)

\* TreeAddLoop without the equality test on the children
TreeAddLoop_NoChildEq(st, aeq, acomp, value, r, i) ==
  IF i > Len(st.heap[r].children) THEN TreeAddNew(st, r, value)
  ELSE LET child == st.heap[r].children[i] IN
       IF Holds(acomp, st.heap, child, value)
       THEN TreeAdd(st, aeq, acomp, value, child)
       ELSE TreeAddLoop(st, aeq, acomp, value, r, i + 1)

TreeAddLoop(st, aeq, acomp, value, r, i) ==
  IF i > Len(st.heap[r].children) THEN TreeAddNew(st, r, value)
  ELSE LET child == st.heap[r].children[i] IN
       IF Holds(aeq, st.heap, child, value) THEN st
       ELSE IF Holds(acomp, st.heap, child, value)
            THEN TreeAdd(st, aeq, acomp, value, child)
            ELSE TreeAddLoop(st, aeq, acomp, value, r, i + 1)

RECURSIVE TreeAddAll(_, _, _, _, _)
TreeAddAll(st, aeq, acomp, values, r) ==
  IF values = <<>> THEN st
  ELSE TreeAddAll(TreeAdd(st, aeq, acomp, Head(values), r), aeq, acomp, Tail(values), r)

\* ---- Tree.removeMeta ----

\* Array.prototype.indexOf: the 0-based position of the first x, or -1
indexOf(s, x) ==
  IF \E k \in 1..Len(s) : s[k] = x
  THEN (CHOOSE k \in 1..Len(s) : s[k] = x /\ \A j \in 1..(k - 1) : s[j] # x) - 1
  ELSE -1

\* the 0-based position at which Array.prototype.splice(start, 1) acts:
\* a negative start counts from the end of the array
spliceFrom(s, start) ==
  IF start < 0 THEN (IF Len(s) + start > 0 THEN Len(s) + start ELSE 0)
  ELSE (IF start < Len(s) THEN start ELSE Len(s))

\* the array after splice(start, 1)
splice(s, start) ==
  LET from == spliceFrom(s, start) IN
  IF from >= Len(s) THEN s
  ELSE SubSeq(s, 1, from) \o SubSeq(s, from + 2, Len(s))

\* the element splice(start, 1) takes out (NoNode when it takes none)
spliced(s, start) ==
  LET from == spliceFrom(s, start) IN
  IF from >= Len(s) THEN NoNode ELSE s[from + 1]

\* removeMeta taking child.total, not child.total + 1, off count
removeMeta_CountOffByOne(st, r, child) ==
  LET h == st.heap
      children == h[r].children
      at == indexOf(children, child)
      t == h[child].total
      up == SelfAndAncestors(h, r)
  IN [st EXCEPT
        !.heap = [i \in 1..Len(h) |->
                    IF i = r THEN [h[i] EXCEPT !.children = splice(children, at),
                                               !.childCount = @ - 1, !.total = @ - t]
                    ELSE IF i \in up THEN [h[i] EXCEPT !.total = @ - t]
                    ELSE h[i]],
        !.count = st.count - t,
        !.log = Append(@, [node |-> child, parent |-> r, total |-> t,
                           spliced |-> spliced(children, at)])]

\* removeMeta without root.childCount--
removeMeta_KeepsChildCount(st, r, child) ==
  LET h == st.heap
      children == h[r].children
      at == indexOf(children, child)
      t == h[child].total
      up == SelfAndAncestors(h, r)
  IN [st EXCEPT
        !.heap = [i \in 1..Len(h) |->
                    IF i = r THEN [h[i] EXCEPT !.children = splice(children, at),
                                               !.total = @ - t]
                    ELSE IF i \in up THEN [h[i] EXCEPT !.total = @ - t]
                    ELSE h[i]],
        !.count = st.count - (t + 1),
        !.log = Append(@, [node |-> child, parent |-> r, total |-> t,
                           spliced |-> spliced(children, at)])]

removeMeta(st, r, child) ==
  LET h == st.heap
      children == h[r].children
      at == indexOf(children, child)
      t == h[child].total
      up == SelfAndAncestors(h, r)
  IN [st EXCEPT
        !.heap = [i \in 1..Len(h) |->
                    IF i = r THEN [h[i] EXCEPT !.children = splice(children, at),
                                               !.childCount = @ - 1, !.total = @ - t]
                    ELSE IF i \in up THEN [h[i] EXCEPT !.total = @ - t]
                    ELSE h[i]],
        !.count = st.count - (t + 1),
        !.log = Append(@, [node |-> child, parent |-> r, total |-> t,
                           spliced |-> spliced(children, at)])]

\* ---- Tree.remove ----
\* the for-of loop reads the children array by position while removeMeta
\* splices it: position i + 1 is read next whatever happened at position i

RECURSIVE TreeRemove(_, _, _, _, _), TreeRemoveLoop(_, _, _, _, _, _)
\* TreeRemove counting the fresh root, as the constructor and clear() do
TreeRemove_CountsNewRoot(st, peq, pcomp, value, r) ==
  IF Holds(peq, st.heap, r, value)
  THEN LET parent == st.heap[r].parent IN
       IF parent # NoNode THEN removeMeta(st, parent, r)
       ELSE [st EXCEPT !.heap = Append(@, TreeNode(0, Undefined, NoNode)),
                       !.root = Len(st.heap) + 1,
                       !.count = 1,
                       !.created = Append(@, Len(st.heap) + 1)]
  ELSE IF ~leaf(st.heap, r) THEN TreeRemoveLoop(st, peq, pcomp, value, r, 1)
  ELSE st

TreeRemove(st, peq, pcomp, value, r) ==
  IF Holds(peq, st.heap, r, value)
  THEN LET parent == st.heap[r].parent IN
       IF parent # NoNode THEN removeMeta(st, parent, r)
       ELSE [st EXCEPT !.heap = Append(@, TreeNode(0, Undefined, NoNode)),
                       !.root = Len(st.heap) + 1,
                       !.count = 0,
                       !.created = Append(@, Len(st.heap) + 1)]
  ELSE IF ~leaf(st.heap, r) THEN TreeRemoveLoop(st, peq, pcomp, value, r, 1)
  ELSE st

TreeRemoveLoop(st, peq, pcomp, value, r, i) ==
  IF i > Len(st.heap[r].children) THEN st
  ELSE LET child == st.heap[r].children[i] IN
       IF Holds(peq, st.heap, child, value)
       THEN TreeRemoveLoop(removeMeta(st, r, child), peq, pcomp, value, r, i + 1)
       ELSE IF Holds(pcomp, st.heap, child, value)
            THEN TreeRemoveLoop(TreeRemove(st, peq, pcomp, value, child),
                                peq, pcomp, value, r, i + 1)
            ELSE TreeRemoveLoop(st, peq, pcomp, value, r, i + 1)

\* ---- Tree[Symbol.iterator]: breadth-first, a FIFO queue seeded with the root ----

RECURSIVE Bfs(_, _, _)
\* Bfs with the children put at the front of the queue (unshift for push)
Bfs_DepthFirst(h, queue, out) ==
  IF queue = <<>> THEN out
  ELSE Bfs(h, h[Head(queue)].children \o Tail(queue), Append(out, Head(queue)))

Bfs(h, queue, out) ==
  IF queue = <<>> THEN out
  ELSE Bfs(h, Tail(queue) \o h[Head(queue)].children, Append(out, Head(queue)))

Iterator(h, rt) == Bfs(h, <<rt>>, <<>>)

\* the nodes the iterator yields from rt, as a set
Yielded(h, rt) == LET it == Iterator(h, rt) IN {it[k] : k \in 1..Len(it)}

\* ---- Tree.traverseAsync ----
\* The part of a call that runs before the call first waits: an async
\* function runs synchronously up to its first await, so every nested call
\* and every call of the traverser is made, in this order, before
\* traverseAsync returns its promise.  `invoked` lists the nodes the traverser
\* was called with; `threw` says that some call ended in `new Array(length)`
\* with a negative length (a RangeError, which rejects the promise of that
\* call before it calls the traverser).  childCount never exceeds the length
\* of children (removeMeta lowers it once for at most one spliced child), so
\* root.children[i] is a node for every i below childCount.

RECURSIVE TreeTraverseAsync(_, _)
RECURSIVE TreeTraverseAsyncLoop(_, _, _, _)

TreeTraverseAsyncLoop(h, r, i, length) ==
  IF i > length THEN [invoked |-> <<>>, threw |-> FALSE, calls |-> {}, thrown |-> {}]
  ELSE LET promise == TreeTraverseAsync(h, h[r].children[i])
           rest == TreeTraverseAsyncLoop(h, r, i + 1, length)
       IN [invoked |-> promise.invoked \o rest.invoked,
           threw |-> promise.threw \/ rest.threw,
           calls |-> promise.calls \cup rest.calls,
           thrown |-> promise.thrown \cup rest.thrown]

\* TreeTraverseAsync that waits for the call on a child before it makes the
\* next call (await in the loop): before the first wait the traverser has
\* been called with the first leaf only
TreeTraverseAsync_AwaitInLoop(h, r) ==
  IF leaf(h, r) THEN [invoked |-> <<r>>, threw |-> FALSE, calls |-> {r}, thrown |-> {}]
  ELSE LET first == TreeTraverseAsync(h, h[r].children[1])
       IN [invoked |-> first.invoked, threw |-> first.threw,
           calls |-> first.calls \cup {r}, thrown |-> first.thrown]

\* `calls` are the nodes traverseAsync was called with (one promise each),
\* `thrown` those of them whose call threw
TreeTraverseAsync(h, r) ==
  IF leaf(h, r) THEN [invoked |-> <<r>>, threw |-> FALSE, calls |-> {r}, thrown |-> {}]
  ELSE LET length == h[r].childCount IN
       IF length < 0 THEN [invoked |-> <<>>, threw |-> TRUE, calls |-> {r}, thrown |-> {r}]
       ELSE LET promises == TreeTraverseAsyncLoop(h, r, 1, length)
            IN [invoked |-> promises.invoked \o <<r>>, threw |-> promises.threw,
                calls |-> promises.calls \cup {r}, thrown |-> promises.thrown]

\* the task of the traverser call on node n: its place in `invoked`
TaskOf(call, n) == CHOOSE task \in 1..Len(call.invoked) : call.invoked[task] = n

\* the promise traverser(n) returned, as the call of traverseAsync on n sees it
TraverserPromise(call, n) ==
  IF TaskOf(call, n) \in call.failed THEN "rejected"
  ELSE IF TaskOf(call, n) \in call.running THEN "pending"
  ELSE "fulfilled"

\* what the call on n waits for: `await traverser(root)` on a leaf, else
\* `await Promise.all(promises)` over the calls on the children and
\* traverser(root)
Awaited(h, call, n) ==
  IF leaf(h, n) THEN {TraverserPromise(call, n)}
  ELSE {call.promise[h[n].children[i]] : i \in 1..h[n].childCount}
         \cup {TraverserPromise(call, n)}

\* Settled for a call that waits for traverser(root) alone, not for the
\* calls on the children
Settled_OwnTraverserOnly(h, call, n) ==
  TraverserPromise(call, n)

\* Settled for a call that waits with Promise.allSettled: it goes on when
\* nothing it waits for is pending, whatever the outcomes
Settled_AllSettled(h, call, n) ==
  IF "pending" \in Awaited(h, call, n) THEN "pending" ELSE "fulfilled"

\* how the promise of the call on n settles, "pending" while it cannot: an
\* await rejects once a promise it waits for has rejected (Promise.all
\* rejects with the first rejection) and goes on when all have fulfilled
Settled(h, call, n) ==
  IF "rejected" \in Awaited(h, call, n) THEN "rejected"
  ELSE IF "pending" \in Awaited(h, call, n) THEN "pending"
  ELSE "fulfilled"

\* ---- Tree.node ----

\* TreeNodeById that goes on to the last node with the id
TreeNodeById_LastMatch(h, rt, id) ==
  LET it == Iterator(h, rt) IN
  IF \E k \in 1..Len(it) : h[it[k]].id = id
  THEN it[CHOOSE k \in 1..Len(it) : h[it[k]].id = id /\ \A j \in (k + 1)..Len(it) : h[it[j]].id # id]
  ELSE NoNode

TreeNodeById(h, rt, id) ==
  LET it == Iterator(h, rt) IN
  IF \E k \in 1..Len(it) : h[it[k]].id = id
  THEN it[CHOOSE k \in 1..Len(it) : h[it[k]].id = id /\ \A j \in 1..(k - 1) : h[it[j]].id # id]
  ELSE NoNode

\* ---- Tree.nodeByValue ----

RECURSIVE TreeNodeByValue(_, _, _, _, _), TreeNodeByValueLoop(_, _, _, _, _, _)
TreeNodeByValue(h, peq, pcomp, value, r) ==
  IF Holds(peq, h, r, value) THEN r
  ELSE IF ~leaf(h, r) THEN TreeNodeByValueLoop(h, peq, pcomp, value, r, 1)
  ELSE NoNode

\* TreeNodeByValueLoop that goes on to the next child when the search below a
\* child found nothing
TreeNodeByValueLoop_GoesOn(h, peq, pcomp, value, r, i) ==
  IF i > Len(h[r].children) THEN NoNode
  ELSE LET child == h[r].children[i] IN
       IF Holds(peq, h, child, value) THEN child
       ELSE IF Holds(pcomp, h, child, value)
                 /\ TreeNodeByValue(h, peq, pcomp, value, child) # NoNode
            THEN TreeNodeByValue(h, peq, pcomp, value, child)
            ELSE TreeNodeByValueLoop(h, peq, pcomp, value, r, i + 1)

TreeNodeByValueLoop(h, peq, pcomp, value, r, i) ==
  IF i > Len(h[r].children) THEN NoNode
  ELSE LET child == h[r].children[i] IN
       IF Holds(peq, h, child, value) THEN child
       ELSE IF Holds(pcomp, h, child, value)
            THEN TreeNodeByValue(h, peq, pcomp, value, child)
            ELSE TreeNodeByValueLoop(h, peq, pcomp, value, r, i + 1)

\* ---- Tree.has ----
\* The tests use this.#eq and this.#comp (feq, fcomp); the arguments eq and
\* comp are only handed on to the recursive call.

RECURSIVE TreeHas(_, _, _, _, _, _, _), TreeHasLoop(_, _, _, _, _, _, _, _)
TreeHas(h, feq, fcomp, value, r, eq, comp) ==
  IF Holds(feq, h, r, value) THEN TRUE
  ELSE IF ~leaf(h, r) THEN TreeHasLoop(h, feq, fcomp, value, r, eq, comp, 1)
  ELSE FALSE

\* TreeHasLoop without the equality test on the children
TreeHasLoop_NoChildEq(h, feq, fcomp, value, r, eq, comp, i) ==
  IF i > Len(h[r].children) THEN FALSE
  ELSE LET child == h[r].children[i] IN
       IF Holds(fcomp, h, child, value)
       THEN TreeHas(h, feq, fcomp, value, child, eq, comp)
       ELSE TreeHasLoop(h, feq, fcomp, value, r, eq, comp, i + 1)

TreeHasLoop(h, feq, fcomp, value, r, eq, comp, i) ==
  IF i > Len(h[r].children) THEN FALSE
  ELSE LET child == h[r].children[i] IN
       IF Holds(feq, h, child, value) THEN TRUE
       ELSE IF Holds(fcomp, h, child, value)
            THEN TreeHas(h, feq, fcomp, value, child, eq, comp)
            ELSE TreeHasLoop(h, feq, fcomp, value, r, eq, comp, i + 1)

\* ---- Tree.branch ----

RECURSIVE TreeBranch(_, _, _, _, _, _), TreeBranchLoop(_, _, _, _, _, _, _)
\* TreeBranch without the last check at a leaf
TreeBranch_NoLastCheck(h, feq, fcomp, targetValue, r, store) ==
  IF ~leaf(h, r) THEN TreeBranchLoop(h, feq, fcomp, targetValue, r, store, 1)
  ELSE store

TreeBranch(h, feq, fcomp, targetValue, r, store) ==
  IF ~leaf(h, r) THEN TreeBranchLoop(h, feq, fcomp, targetValue, r, store, 1)
  ELSE IF Holds(feq, h, r, targetValue) THEN store ELSE <<>>

TreeBranchLoop(h, feq, fcomp, targetValue, r, store, i) ==
  IF i > Len(h[r].children)
  THEN IF Holds(feq, h, r, targetValue) THEN store ELSE <<>>
  ELSE LET child == h[r].children[i] IN
       IF leaf(h, child) /\ Holds(feq, h, child, targetValue)
       THEN Append(store, h[child].value)
       ELSE IF Holds(fcomp, h, child, targetValue)
            THEN TreeBranch(h, feq, fcomp, targetValue, child, Append(store, h[child].value))
            ELSE TreeBranchLoop(h, feq, fcomp, targetValue, r, store, i + 1)

\* ---- Tree.branchAll ----

RECURSIVE TreeBranchAll(_, _, _, _, _, _, _), TreeBranchAllLoop(_, _, _, _, _, _, _, _)
\* TreeBranchAll without the last check at a leaf
TreeBranchAll_NoLastCheck(h, feq, fcomp, targetValue, r, store, found) ==
  IF ~leaf(h, r) THEN TreeBranchAllLoop(h, feq, fcomp, targetValue, r, store, found, 1)
  ELSE store

TreeBranchAll(h, feq, fcomp, targetValue, r, store, found) ==
  IF ~leaf(h, r) THEN TreeBranchAllLoop(h, feq, fcomp, targetValue, r, store, found, 1)
  ELSE IF found \/ Holds(feq, h, r, targetValue) THEN store ELSE <<>>

TreeBranchAllLoop(h, feq, fcomp, targetValue, r, store, found, i) ==
  IF i > Len(h[r].children)
  THEN IF found \/ Holds(feq, h, r, targetValue) THEN store ELSE <<>>
  ELSE LET child == h[r].children[i]
           pushed == Append(store, h[child].value)
       IN IF found
          THEN IF leaf(h, child)
               THEN TreeBranchAllLoop(h, feq, fcomp, targetValue, r, pushed, found, i + 1)
               ELSE TreeBranchAll(h, feq, fcomp, targetValue, child, pushed, found)
          ELSE IF Holds(feq, h, child, targetValue)
               THEN IF leaf(h, child) THEN pushed
                    ELSE TreeBranchAll(h, feq, fcomp, targetValue, child, pushed, TRUE)
               ELSE IF Holds(fcomp, h, child, targetValue)
                    THEN TreeBranchAll(h, feq, fcomp, targetValue, child, pushed, found)
                    ELSE TreeBranchAllLoop(h, feq, fcomp, targetValue, r, store, found, i + 1)

\* ---- Tree.toJSON ----
\* A string is the sequence of its characters.

Digits == <<"0", "1", "2", "3", "4", "5", "6", "7", "8", "9">>

RECURSIVE Decimal(_)
\* the decimal digits of a natural number
Decimal(n) ==
  IF n < 10 THEN <<Digits[n + 1]>>
  ELSE Append(Decimal(n \div 10), Digits[(n % 10) + 1])

\* `${JSON.stringify(value)}` for a number or undefined: JSON.stringify gives
\* undefined for undefined, which the template literal prints as "undefined"
stringify(value) ==
  IF value = Undefined THEN <<"u", "n", "d", "e", "f", "i", "n", "e", "d">>
  ELSE Decimal(value)

RECURSIVE TreeToJSONLoop(_, _, _, _)
TreeToJSONLoop(h, it, k, str) ==
  IF k > Len(it) THEN str
  ELSE TreeToJSONLoop(h, it, k + 1, str \o stringify(h[it[k]].value) \o <<",">>)

TreeToJSON(h, rt) ==
  LET str == TreeToJSONLoop(h, Iterator(h, rt), 1, <<"[">>)
  IN SubSeq(str, 1, Len(str) - 1) \o <<"]">>

\* ---- the state machine ----

\* the nodes of the tree, as a set
Live == Yielded(heap, root)

\* what the last query returned to the caller, until the caller takes it;
\* NoCall when no query is pending
NoCall == [op |-> "none"]

\* the name and the `root` of a call
Op(name, r) == [op |-> name, root |-> r]

\* the nodes that can still be reached from the nodes of seeds: through
\* parent up to the topmost ancestor, through children down from there
Reachable(h, seeds) ==
  UNION {UNION {Yielded(h, a) : a \in SelfAndAncestors(h, s)} : s \in seeds}

\* a node neither the tree nor the caller can reach any more is garbage: its
\* record is reset (its reference is not used again)
Gc(h, seeds) ==
  LET keep == Reachable(h, seeds) IN
  [i \in 1..Len(h) |-> IF i \in keep THEN h[i] ELSE TreeNode(0, Undefined, NoNode)]

Commit(st) ==
  /\ heap' = Gc(st.heap, {st.root} \cup held')
  /\ root' = st.root
  /\ count' = st.count
  /\ log' = st.log
  /\ created' = st.created
  /\ ret' = NoCall

Init ==
  \E rootValue \in RootValues, c \in CompNames, e \in EqNames :
    /\ heap = <<TreeNode(0, rootValue, NoNode)>>
    /\ root = 1
    /\ count = 1
    /\ f_comp = c /\ f_addComp = c
    /\ f_eq = e /\ f_addEq = e
    /\ held = {}
    /\ last = Op("new", NoNode)
    /\ log = <<>>
    /\ created = <<1>>
    /\ ret = NoCall

add(value, r) ==
  LET st == TreeAdd(TreeState, f_addEq, f_addComp, value, r) IN
  /\ last' = Op("add", r)
  /\ UNCHANGED <<f_comp, f_eq, f_addComp, f_addEq, held>>
  /\ Len(st.heap) <= MaxNodes
  /\ Commit(st)

addAll(values, r) ==
  LET st == TreeAddAll(TreeState, f_addEq, f_addComp, values, r) IN
  /\ last' = Op("addAll", r)
  /\ UNCHANGED <<f_comp, f_eq, f_addComp, f_addEq, held>>
  /\ Len(st.heap) <= MaxNodes
  /\ Commit(st)

remove(value, r) ==
  LET st == TreeRemove(TreeState, f_eq, f_comp, value, r) IN
  /\ last' = Op("remove", r)
  /\ UNCHANGED <<f_comp, f_eq, f_addComp, f_addEq, held>>
  /\ Len(st.heap) <= MaxNodes
  /\ st.count >= -MaxDebt
  /\ Commit(st)

\* clear without the increment of count
clear_CountZero ==
  /\ last' = Op("clear", NoNode)
  /\ UNCHANGED <<f_comp, f_eq, f_addComp, f_addEq, held>>
  /\ Len(heap) < MaxNodes
  /\ heap' = Gc(Append(heap, TreeNode(0, heap[root].value, NoNode)),
              {Len(heap) + 1} \cup held')
  /\ root' = Len(heap) + 1
  /\ count' = 0
  /\ log' = <<>>
  /\ created' = <<Len(heap) + 1>>
  /\ ret' = NoCall

clear ==
  /\ last' = Op("clear", NoNode)
  /\ UNCHANGED <<f_comp, f_eq, f_addComp, f_addEq, held>>
  /\ Len(heap) < MaxNodes
  /\ heap' = Gc(Append(heap, TreeNode(0, heap[root].value, NoNode)),
              {Len(heap) + 1} \cup held')
  /\ root' = Len(heap) + 1
  /\ count' = 1
  /\ log' = <<>>
  /\ created' = <<Len(heap) + 1>>
  /\ ret' = NoCall

\* the caller keeps the node an accessor returned, dropping older ones at will
Keep(n) ==
  IF n = NoNode THEN held' = held
  ELSE \E keep \in SUBSET held :
         /\ Cardinality(keep \cup {n}) <= MaxHeld
         /\ held' = keep \cup {n}

node(id) ==
  /\ Keep(TreeNodeById(heap, root, id))
  /\ heap' = Gc(heap, {root} \cup held')
  /\ UNCHANGED <<root, count, f_comp, f_eq, f_addComp, f_addEq, last, log, created, ret>>

nodeByValue(value, r) ==
  /\ Keep(TreeNodeByValue(heap, f_eq, f_comp, value, r))
  /\ heap' = Gc(heap, {root} \cup held')
  /\ UNCHANGED <<root, count, f_comp, f_eq, f_addComp, f_addEq, last, log, created, ret>>

\* comp that assigns as the constructor does: this.#addComp = this.#comp = callback
comp_AsConstructor(callback) ==
  /\ f_comp' = callback
  /\ f_addComp' = callback
  /\ UNCHANGED <<heap, root, count, f_eq, f_addEq, held, last, log, created, ret>>

comp(callback) ==
  /\ f_comp' = callback
  /\ UNCHANGED <<heap, root, count, f_eq, f_addComp, f_addEq, held, last, log, created, ret>>

eq(callback) ==
  /\ f_eq' = callback
  /\ UNCHANGED <<heap, root, count, f_comp, f_addComp, f_addEq, held, last, log, created, ret>>

onAdd(addEq, addComp) ==
  /\ f_addEq' = addEq
  /\ f_addComp' = addComp
  /\ UNCHANGED <<heap, root, count, f_comp, f_eq, held, last, log, created, ret>>

\* a query changes nothing but what the caller gets back
Returns(call) ==
  /\ ret' = call
  /\ UNCHANGED <<heap, root, count, f_comp, f_eq, f_addComp, f_addEq, held, last, log, created>>

has(value, r, eqArg, compArg) ==
  Returns([op |-> "has", value |-> value, root |-> r, eq |-> eqArg, comp |-> compArg,
           result |-> TreeHas(heap, f_eq, f_comp, value, r, eqArg, compArg)])

branch(targetValue, r) ==
  Returns([op |-> "branch", value |-> targetValue, root |-> r,
           result |-> TreeBranch(heap, f_eq, f_comp, targetValue, r, <<heap[r].value>>)])

branchAll(targetValue, r) ==
  Returns([op |-> "branchAll", value |-> targetValue, root |-> r,
           result |-> TreeBranchAll(heap, f_eq, f_comp, targetValue, r, <<heap[r].value>>,
                                    Holds(f_eq, heap, r, targetValue))])

toJSON ==
  Returns([op |-> "toJSON", result |-> TreeToJSON(heap, root)])

\* for (const node of tree): the nodes in the order they are yielded
iterate ==
  Returns([op |-> "iterate", result |-> Iterator(heap, root)])

\* n.childOf(node) and n.parentOf(node), which the caller calls on nodes
childOf(n, other) ==
  Returns([op |-> "childOf", this |-> n, node |-> other,
           result |-> TreeNodeChildOf(heap, n, other)])

parentOf(n, other) ==
  Returns([op |-> "parentOf", this |-> n, node |-> other,
           result |-> TreeNodeParentOf(heap, n, other)])

\* traverseAsync up to the point where it returns its promise: the traverser
\* has been called with every node of `invoked`, each call is a task that is
\* still running, and the promise of every call that did not throw is pending
traverseAsync(r) ==
  LET call == TreeTraverseAsync(heap, r) IN
  Returns([op |-> "traverseAsync", root |-> r, invoked |-> call.invoked,
           threw |-> call.threw, running |-> 1..Len(call.invoked), failed |-> {},
           promise |-> [n \in call.calls |->
                          IF n \in call.thrown THEN "rejected" ELSE "pending"]])

\* one of the running traverser tasks completes; the tasks complete in any order
traverserDone ==
  /\ ret.op = "traverseAsync"
  /\ \E task \in ret.running : Returns([ret EXCEPT !.running = @ \ {task}])

\* one of the running traverser tasks fails: its promise rejects
traverserFails ==
  /\ ret.op = "traverseAsync"
  /\ \E task \in ret.running :
       Returns([ret EXCEPT !.running = @ \ {task}, !.failed = @ \cup {task}])

\* the promise of one of the calls settles
settle ==
  /\ ret.op = "traverseAsync"
  /\ \E n \in DOMAIN ret.promise :
       /\ ret.promise[n] = "pending"
       /\ Settled(heap, ret, n) # "pending"
       /\ Returns([ret EXCEPT !.promise[n] = Settled(heap, ret, n)])

\* the promise traverseAsync returned to its caller
state(call) == call.promise[call.root]

ValueSeqs == UNION {[1..n -> Values] : n \in 0..MaxAll}

\* The caller leaves `root` out: every call starts at the tree root.
Next ==
  \/ \E value \in Values : add(value, root)
  \/ \E values \in ValueSeqs : addAll(values, root)
  \/ \E value \in Values : remove(value, root)
  \/ clear
  \/ \E callback \in CompNames : comp(callback)
  \/ \E callback \in EqNames : eq(callback)
  \/ \E addEq \in EqNames, addComp \in CompNames : onAdd(addEq, addComp)

Spec == Init /\ [][Next]_vars

\* ---- the same caller, one value per call ----
\* addAll is add folded over the array (TreeAddAll), so it reaches no tree that
\* single add calls do not reach; the calls of NextSingle are those of Next
\* without it.
NextSingle ==
  \/ \E value \in Values : add(value, root)
  \/ \E value \in Values : remove(value, root)
  \/ clear
  \/ \E callback \in CompNames : comp(callback)
  \/ \E callback \in EqNames : eq(callback)
  \/ \E addEq \in EqNames, addComp \in CompNames : onAdd(addEq, addComp)

SpecSingle == Init /\ [][NextSingle]_vars

\* ---- a caller that passes `root` ----
\* `root` is a node an accessor returned to the caller, now or earlier (it may
\* have left the tree by the time it is passed), or the default.  The
\* predicates stay as constructed.

KeptRoots == {root} \cup held

NextHeld ==
  \/ \E value \in Values, r \in KeptRoots : add(value, r)
  \/ \E value \in Values, r \in KeptRoots : remove(value, r)
  \/ clear
  \/ \E id \in 0..MaxNodes : node(id)
  \/ \E value \in Values, r \in KeptRoots : nodeByValue(value, r)

SpecHeld == Init /\ [][NextHeld]_vars

\* ---- a caller that queries the tree ----
\* The tree is built from the tree root; a query starts at a node of the
\* tree.  The caller takes the result of a query (takeResult) before the
\* next call.

takeResult ==
  /\ ret # NoCall
  /\ ret.op = "traverseAsync" => (state(ret) # "pending" /\ ret.running = {})
  /\ ret' = NoCall
  /\ UNCHANGED <<heap, root, count, f_comp, f_eq, f_addComp, f_addEq, held, last, log, created>>

\* no query is pending
Idle == ret = NoCall

NextQuery ==
  \/ Idle /\ \E value \in Values : add(value, root)
  \/ Idle /\ \E value \in Values : remove(value, root)
  \/ Idle /\ \E callback \in CompNames : comp(callback)
  \/ Idle /\ \E value \in Values, r \in Live, e \in EqNames, c \in CompNames :
               has(value, r, e, c)
  \/ Idle /\ \E targetValue \in Values, r \in Live : branch(targetValue, r)
  \/ Idle /\ \E targetValue \in Values, r \in Live : branchAll(targetValue, r)
  \/ Idle /\ toJSON
  \/ Idle /\ iterate
  \/ takeResult

SpecQuery == Init /\ [][NextQuery]_vars

\* ---- a caller that works on subtrees ----
\* The caller passes any node of the tree as `root`.

NextSub ==
  \/ \E value \in Values, r \in Live : add(value, r)
  \/ \E value \in Values, r \in Live : remove(value, r)
  \/ clear

SpecSub == Init /\ [][NextSub]_vars

\* ---- a caller that adds to subtrees ----
\* The caller passes any node of the tree as the `root` of add, and removes
\* from the tree root.

NextGrow ==
  \/ \E value \in Values, r \in Live : add(value, r)
  \/ \E value \in Values : remove(value, root)

SpecGrow == Init /\ [][NextGrow]_vars

\* ---- a caller that asks nodes of the tree about each other ----

NextKin ==
  \/ Idle /\ \E value \in Values : add(value, root)
  \/ Idle /\ \E value \in Values : remove(value, root)
  \/ Idle /\ \E n \in Live, other \in Live : childOf(n, other)
  \/ Idle /\ \E n \in Live, other \in Live : parentOf(n, other)
  \/ takeResult

SpecKin == Init /\ [][NextKin]_vars

\* ---- a caller that replaces the predicates ----
\* Every call leaves `root`, and has its `eq` and `comp`, out.  The caller
\* is done with the result of a query before the next call.

\* the caller lets go of the nodes it kept
release ==
  /\ held # {}
  /\ held' = {}
  /\ heap' = Gc(heap, {root})
  /\ UNCHANGED <<root, count, f_comp, f_eq, f_addComp, f_addEq, last, log, created, ret>>

\* no query is pending and the caller keeps no node
Quiet == Idle /\ held = {}

NextSetters ==
  \/ Quiet /\ \E value \in Values : add(value, root)
  \/ Quiet /\ \E value \in Values : remove(value, root)
  \/ Quiet /\ \E callback \in CompNames : comp(callback)
  \/ Quiet /\ \E callback \in EqNames : eq(callback)
  \/ Quiet /\ \E addEq \in EqNames, addComp \in CompNames : onAdd(addEq, addComp)
  \/ Quiet /\ \E value \in Values : has(value, root, f_eq, f_comp)
  \/ Quiet /\ \E value \in Values : nodeByValue(value, root)
  \/ Quiet /\ \E targetValue \in Values : branch(targetValue, root)
  \/ Quiet /\ \E targetValue \in Values : branchAll(targetValue, root)
  \/ takeResult
  \/ release

SpecSetters == Init /\ [][NextSetters]_vars

\* ---- a caller that looks nodes up ----
\* The tree is built from the tree root; the caller keeps what node() and
\* nodeByValue() return.

NextFind ==
  \/ \E value \in Values : add(value, root)
  \/ \E value \in Values : remove(value, root)
  \/ \E id \in 0..MaxNodes : node(id)
  \/ \E value \in Values : nodeByValue(value, root)

SpecFind == Init /\ [][NextFind]_vars

\* ---- a caller that traverses the tree ----
\* The tree is not changed while a traversal is under way: the caller waits
\* for the promise and for the tasks of the traverser before the next call.

NextAsync ==
  \/ Idle /\ \E value \in Values : add(value, root)
  \/ Idle /\ \E value \in Values : remove(value, root)
  \/ Idle /\ \E r \in Live : traverseAsync(r)
  \/ traverserDone
  \/ traverserFails
  \/ settle
  \/ takeResult

SpecAsync == Init /\ [][NextAsync]_vars

\* The promise reactions are jobs of the microtask queue, which the event loop
\* runs as long as there are any: a promise that can settle does settle.
\* Nothing makes a traverser task complete: that is up to the traverser.
SpecAsyncFair == SpecAsync /\ WF_vars(settle)

\* the same caller, who also keeps nodes that node() returned and passes them
\* as `root`
NextAsyncHeld ==
  \/ Idle /\ \E value \in Values : add(value, root)
  \/ Idle /\ \E value \in Values, r \in KeptRoots : remove(value, r)
  \/ Idle /\ \E id \in 0..MaxNodes : node(id)
  \/ Idle /\ \E r \in KeptRoots : traverseAsync(r)
  \/ traverserDone
  \/ traverserFails
  \/ settle
  \/ takeResult

SpecAsyncHeld == Init /\ [][NextAsyncHeld]_vars

\* ---- a tree of paths ----
\* new Tree('/', (node, value) => value.includes(node.value)): the traversal
\* predicate is "the target includes the node's value", the equality predicate
\* the default one.

InitPath ==
  /\ heap = <<TreeNode(0, 1, NoNode)>>
  /\ root = 1
  /\ count = 1
  /\ f_comp = "includes" /\ f_addComp = "includes"
  /\ f_eq = "same" /\ f_addEq = "same"
  /\ held = {}
  /\ last = Op("new", NoNode)
  /\ log = <<>>
  /\ created = <<1>>
  /\ ret = NoCall

NextPath ==
  \/ Idle /\ \E value \in PathValues : add(value, root)
  \/ Idle /\ \E value \in PathValues : remove(value, root)
  \/ Idle /\ \E targetValue \in PathValues : branch(targetValue, root)
  \/ Idle /\ \E targetValue \in PathValues : branchAll(targetValue, root)
  \/ Idle /\ iterate
  \/ takeResult

SpecPath == InitPath /\ [][NextPath]_vars

\* ==== the claims ====
\* A step of add, remove or clear records its call in last': a claim about an
\* operation reads the `root` it was called with from last'.root.

RECURSIVE SubtreeSizes(_, _)
\* the sum over the nodes of s of (1 + total)
SubtreeSizes(h, s) ==
  IF s = <<>> THEN 0 ELSE 1 + h[Head(s)].total + SubtreeSizes(h, Tail(s))

\* the tree root has never been removed: a removed root leaves the value
\* `undefined`, which clear() carries over
RootKept == heap[root].value # Undefined

\* the tree still has the root node it was constructed with: no clear(), no
\* removal of the tree root
FirstRoot == root = 1

\* C1: after every sequence of add, addAll, remove and clear, every node
\* reachable from the root has total = the sum over its direct children of
\* (1 + child.total).
C1_TotalIsSumOverChildren ==
  \A n \in Live : heap[n].total = SubtreeSizes(heap, heap[n].children)

\* C2: count = root.total + 1 in every state between operations (stated for
\* the trees whose root was never removed: remove() of the tree root sets
\* count to 0 on purpose).
C2_CountIsRootTotalPlusOne ==
  RootKept => count = heap[root].total + 1

\* C3: as long as the tree root was never removed, count is the number of
\* nodes the breadth-first iterator yields from the root.
C3_CountIsLiveNodes ==
  RootKept => count = Len(Iterator(heap, root))

\* C4: without clear() and without removal of the tree root, no two nodes
\* reachable from the root share an id.
C4_IdsUnique ==
  FirstRoot => \A n, m \in Live : n # m => heap[n].id # heap[m].id

\* C5: add of a value whose insertion equality predicate matches any node
\* of the tree is a no-op: count and the tree are unchanged.
C5_DuplicateAnywhereIsNoOp ==
  [][\A value \in Values :
       (add(value, last'.root) /\ \E n \in Live : Holds(f_addEq, heap, n, value))
         => UNCHANGED <<heap, root, count>>]_vars

RECURSIVE Examined(_, _, _, _), ExaminedLoop(_, _, _, _, _)
\* the nodes add(value, r) looks at: r, its children in order up to the first
\* one that satisfies the insertion traversal predicate, and so on from that
\* child
Examined(h, acomp, value, r) == {r} \cup ExaminedLoop(h, acomp, value, r, 1)

ExaminedLoop(h, acomp, value, r, i) ==
  IF i > Len(h[r].children) THEN {}
  ELSE LET child == h[r].children[i] IN
       IF Holds(acomp, h, child, value) THEN Examined(h, acomp, value, child)
       ELSE {child} \cup ExaminedLoop(h, acomp, value, r, i + 1)

\* C5 (amended): add(value, r) is a no-op when the insertion equality
\* predicate matches a node the first-match descent from r looks at.
C5_DuplicateOnDescentIsNoOp ==
  [][\A value \in Values :
       (add(value, last'.root)
          /\ \E n \in Examined(heap, f_addComp, value, last'.root) :
               Holds(f_addEq, heap, n, value))
         => UNCHANGED <<heap, root, count>>]_vars

\* an add from the tree root has just created nothing, in a tree where a
\* value matches a node two levels below the root on its descent
C5_Witness ==
  /\ last = Op("add", root)
  /\ created = <<>>
  /\ \E value \in Values :
       \E n \in Examined(heap, f_addComp, value, root) :
         /\ Holds(f_addEq, heap, n, value)
         /\ n # root /\ heap[n].parent # root
         /\ \A m \in Examined(heap, f_addComp, value, root) \ {n} :
              ~Holds(f_addEq, heap, m, value)

RECURSIVE DetachedSizes(_, _)
\* the sum, over the removeMeta calls of l, of (1 + total) of the detached
\* node, the totals read in h
DetachedSizes(h, l) ==
  IF l = <<>> THEN 0 ELSE 1 + h[Head(l).node].total + DetachedSizes(h, Tail(l))

\* the number of removeMeta calls of l made on the parent p
DetachedUnder(l, p) == Cardinality({k \in 1..Len(l) : l[k].parent = p})

\* C6: when remove detaches non-root nodes, count goes down by exactly
\* (N.total + 1) for each detached node N, N.total being its total before the
\* call, and the childCount of N's parent goes down by exactly 1 for each.
C6_RemovalCascades ==
  [][\A value \in Values :
       (remove(value, last'.root) /\ log' # <<>>)
         => /\ count' = count - DetachedSizes(heap, log')
            /\ \A p \in Yielded(heap', root') :
                 heap'[p].childCount = heap[p].childCount - DetachedUnder(log', p)]_vars

\* a remove has just detached one interior node, with descendants
C6_Witness ==
  /\ last.op = "remove"
  /\ Len(log) = 1
  /\ log[1].total > 0
  /\ log[1].spliced = log[1].node
  /\ log[1].node \notin Live

\* C7: remove(value, root), root being a node the caller got from node() or
\* nodeByValue() at any earlier time, takes out of the tree only nodes that
\* satisfy the equality predicate for value, with all their descendants; every
\* other node stays under the same parent and the surviving siblings keep
\* their order (stated for the calls that keep the tree root: created' is
\* empty).
C7_RemoveTakesOnlyMatches ==
  [][\A value \in Values :
       (remove(value, last'.root) /\ created' = <<>>)
         => LET Live2 == Yielded(heap', root')
                Stays(n) == n \in Live2
            IN /\ \A n \in Live \ Live2 :
                    \E a \in SelfAndAncestors(heap, n) : Holds(f_eq, heap, a, value)
               /\ \A p \in Live \cap Live2 :
                    heap'[p].children = SelectSeq(heap[p].children, Stays)]_vars

\* C8: remove of a value the tree root matches, called on the tree root,
\* leaves a fresh singleton root (no children, id 0) with the value
\* `undefined`, and count 0.
C8_RootRemoval ==
  [][\A value \in Values :
       (remove(value, last'.root) /\ last'.root = root /\ Holds(f_eq, heap, root, value))
         => /\ root' \notin 1..Len(heap)
            /\ heap'[root'] = TreeNode(0, Undefined, NoNode)
            /\ count' = 0]_vars

\* a remove has just replaced the root of a tree that had grown to three nodes
C8_Witness ==
  /\ last.op = "remove"
  /\ created = <<root>>
  /\ root = 4
  /\ count = 0
  /\ heap[root].value = Undefined

\* C9: clear() leaves count = 1 and a fresh leaf root (id 0, total 0, no
\* children) with the previous root's value; the four predicates are
\* unchanged; the next node inserted gets id 1.
C9_Clear ==
  [][/\ clear => /\ count' = 1
                 /\ root' \notin 1..Len(heap)
                 /\ heap'[root'] = TreeNode(0, heap[root].value, NoNode)
                 /\ UNCHANGED <<f_comp, f_eq, f_addComp, f_addEq>>
     /\ \A value \in Values :
          (last.op = "clear" /\ add(value, last'.root) /\ created' # <<>>)
            => heap'[created'[1]].id = 1]_vars

\* clear() has just discarded a tree that had grown to three nodes
C9_Witness ==
  /\ last.op = "clear"
  /\ created = <<root>>
  /\ root = 4
  /\ count = 1
  /\ heap[root].value \in Values

RECURSIVE DescentTarget(_, _, _, _)
\* the node under which add(value, r) appends: from r, step into the first
\* child that satisfies the insertion traversal predicate, until none does
DescentTarget(h, acomp, value, r) ==
  LET matching == {i \in 1..Len(h[r].children) : Holds(acomp, h, h[r].children[i], value)}
  IN IF matching = {} THEN r
     ELSE DescentTarget(h, acomp, value,
            h[r].children[CHOOSE i \in matching : \A j \in matching : i <= j])

\* C10: an add(value, root) that is not a no-op creates exactly one leaf, as
\* the last child of the node the first-match descent from root ends at; its
\* id is the count before the call and count goes up by exactly 1.
C10_AddCreatesOneLeaf ==
  [][\A value \in Values :
       (add(value, last'.root) /\ <<heap, count>>' # <<heap, count>>)
         => LET new == Len(heap) + 1
                target == DescentTarget(heap, f_addComp, value, last'.root)
            IN /\ Len(heap') = new
               /\ heap'[new] = TreeNode(count, value, target)
               /\ heap'[target].children = Append(heap[target].children, new)
               /\ \A n \in (1..Len(heap)) \ {target} :
                    heap'[n].children = heap[n].children
               /\ count' = count + 1
               /\ root' = root]_vars

\* an add from the tree root has just created a leaf two levels below it
C10_Witness ==
  /\ last = Op("add", root)
  /\ Len(created) = 1
  /\ heap[created[1]].parent \notin {NoNode, root}
  /\ heap[heap[created[1]].parent].parent = root
  /\ created[1] \in Live

\* ---- the queries ----
\* A query leaves its call and its result in ret; the tree in that state is
\* the tree the query ran on.

\* the call passed no predicates of its own: eq and comp are the tree's
DefaultPredicates == ret.eq = f_eq /\ ret.comp = f_comp

RECURSIVE HasDirect(_, _, _, _, _)
\* true if r or any direct child of r satisfies feq; only when no direct child
\* does, the answer for the first child that satisfies fcomp; false when there
\* is none
HasDirect(h, feq, fcomp, value, r) ==
  LET kids == h[r].children
      matching == {i \in 1..Len(kids) : Holds(fcomp, h, kids[i], value)}
  IN IF Holds(feq, h, r, value) THEN TRUE
     ELSE IF \E i \in 1..Len(kids) : Holds(feq, h, kids[i], value) THEN TRUE
     ELSE IF matching = {} THEN FALSE
     ELSE HasDirect(h, feq, fcomp, value,
            kids[CHOOSE i \in matching : \A j \in matching : i <= j])

\* C11: has(value, root) is true whenever root or any direct child of root
\* satisfies the equality predicate; only when no direct child matches does it
\* descend into the first child satisfying the traversal predicate; it is
\* false when no child matches either predicate.
C11_HasLooksAtEveryChild ==
  (ret.op = "has" /\ DefaultPredicates)
    => ret.result = HasDirect(heap, f_eq, f_comp, ret.value, ret.root)

\* C11 (amended): has(value, root) is true exactly when the equality predicate
\* holds of a node the first-match descent from root looks at: root, its
\* children in order up to the first one that satisfies the traversal
\* predicate, and so on from that child.
C11_HasOnDescent ==
  (ret.op = "has" /\ DefaultPredicates)
    => ret.result = (\E n \in Examined(heap, f_comp, ret.value, ret.root) :
                       Holds(f_eq, heap, n, ret.value))

\* has, called on the tree root, has found the value two levels below it
C11_Witness ==
  /\ ret.op = "has" /\ DefaultPredicates
  /\ ret.root = root
  /\ ret.result
  /\ \A n \in Examined(heap, f_comp, ret.value, root) :
       Holds(f_eq, heap, n, ret.value) => n # root /\ heap[n].parent # root

\* C12: has called with an equality and a traversal predicate decides with
\* them: its outcome is the one the algorithm gives with the tree's
\* predicates replaced by the passed ones.
C12_HasUsesPassedPredicates ==
  ret.op = "has"
    => ret.result = TreeHas(heap, ret.eq, ret.comp, ret.value, ret.root, ret.eq, ret.comp)

RECURSIVE PathTo(_, _)
\* the values on the way from the topmost ancestor of n down to n
PathTo(h, n) ==
  IF h[n].parent = NoNode THEN <<h[n].value>>
  ELSE Append(PathTo(h, h[n].parent), h[n].value)

\* the nodes of the tree without children
Leaves == {n \in Live : heap[n].children = <<>>}

\* C13: in a tree of paths (traversal predicate "target includes the node's
\* value", default equality), branch(leafValue) is the sequence of the values
\* on the path from the root to that leaf, for every leaf; branch of a value
\* that is not in the tree, dead ends included, is empty.
C13_BranchOfPaths ==
  (ret.op = "branch" /\ ret.root = root)
    => /\ \A n \in Leaves :
            heap[n].value = ret.value => ret.result = PathTo(heap, n)
       /\ (\A n \in Live : heap[n].value # ret.value) => ret.result = <<>>

\* branch has returned the three values on the path to a leaf two levels
\* below the root
C13_Witness ==
  /\ ret.op = "branch" /\ ret.root = root
  /\ Len(ret.result) = 3
  /\ \E n \in Leaves : heap[n].value = ret.value /\ heap[heap[n].parent].parent = root

RECURSIVE PathFrom(_, _, _)
\* the values on the way from r down to its descendant n
PathFrom(h, r, n) ==
  IF n = r THEN <<h[n].value>>
  ELSE Append(PathFrom(h, r, h[n].parent), h[n].value)

\* C14: branch(target, root) stops at the target even if it is not a leaf:
\* for every interior node N that nodeByValue(target, root) finds, it returns
\* the values on the path from root to N, ending with N's value.
C14_BranchStopsAtInteriorTarget ==
  ret.op = "branch"
    => LET N == TreeNodeByValue(heap, f_eq, f_comp, ret.value, ret.root)
       IN (N # NoNode /\ heap[N].children # <<>>)
            => ret.result = PathFrom(heap, ret.root, N)

\* the elements of a sequence
Elements(s) == {s[k] : k \in 1..Len(s)}

\* C15: whenever v identifies a non-leaf node N, branchAll(v) contains every
\* value of branch(v) and the value of every descendant of N, at every depth
\* and for every sibling.
C15_BranchAllHasAllDescendants ==
  (ret.op = "branchAll" /\ ret.root = root)
    => LET N == TreeNodeByValue(heap, f_eq, f_comp, ret.value, root)
       IN (N # NoNode /\ heap[N].children # <<>>)
            => /\ Elements(TreeBranch(heap, f_eq, f_comp, ret.value, root,
                                      <<heap[root].value>>)) \subseteq Elements(ret.result)
               /\ \A d \in Yielded(heap, N) : heap[d].value \in Elements(ret.result)

\* C16: for every start node root and every target the equality predicate
\* matches only at leaves (or nowhere), branchAll(target, root) returns the
\* sequence branch(target, root) returns, the empty one included.
C16_BranchAllIsBranchOnLeaves ==
  (ret.op = "branchAll"
     /\ \A n \in Yielded(heap, ret.root) :
          Holds(f_eq, heap, n, ret.value) => heap[n].children = <<>>)
    => ret.result = TreeBranch(heap, f_eq, f_comp, ret.value, ret.root,
                               <<heap[ret.root].value>>)

\* branchAll has returned the path to a leaf two levels below its start node
C16_Witness ==
  /\ ret.op = "branchAll"
  /\ Len(ret.result) = 3
  /\ \E n \in Leaves : /\ Holds(f_eq, heap, n, ret.value)
                        /\ ret.result = PathFrom(heap, ret.root, n)
  /\ \A n \in Yielded(heap, ret.root) :
       Holds(f_eq, heap, n, ret.value) => heap[n].children = <<>>

\* ---- JSON.parse of an array of numbers ----

\* what parse gives for a text that is not JSON (no array of numbers holds -2)
SyntaxError == <<-2>>

\* the number a run of decimal digits stands for; -1 if it is not one
RECURSIVE Number(_)
Number(token) ==
  LET digit(c) == IF \E d \in 1..10 : Digits[d] = c
                  THEN (CHOOSE d \in 1..10 : Digits[d] = c) - 1 ELSE -1
  IN IF token = <<>> THEN -1
     ELSE IF Len(token) = 1 THEN digit(token[1])
     ELSE LET front == Number(SubSeq(token, 1, Len(token) - 1))
              dig == digit(token[Len(token)])
          IN IF front < 0 \/ dig < 0 THEN -1 ELSE 10 * front + dig

RECURSIVE Split(_, _)
\* the runs of characters between the commas of str; cur is the run so far
Split(str, cur) ==
  IF str = <<>> THEN <<cur>>
  ELSE IF Head(str) = "," THEN <<cur>> \o Split(Tail(str), <<>>)
  ELSE Split(Tail(str), Append(cur, Head(str)))

\* JSON.parse(str) for the text of an array of numbers
parse(str) ==
  IF Len(str) < 2 \/ str[1] # "[" \/ str[Len(str)] # "]" THEN SyntaxError
  ELSE LET tokens == Split(SubSeq(str, 2, Len(str) - 1), <<>>)
       IN IF \E k \in 1..Len(tokens) : Number(tokens[k]) < 0 THEN SyntaxError
          ELSE [k \in 1..Len(tokens) |-> Number(tokens[k])]

\* new Tree(rootValue, ...), as TreeState
NewTree(rootValue) ==
  [heap |-> <<TreeNode(0, rootValue, NoNode)>>, root |-> 1, count |-> 1,
   log |-> <<>>, created |-> <<1>>]

\* C17: for any tree T reached by add and remove, a fresh tree T2 made from
\* T.root.value with the same predicates and given the parsed values of
\* T.toJSON() by addAll has T2.count = T.count and T2.toJSON() = T.toJSON()
\* (stated for the trees whose root was never removed).
C17_RoundTrip ==
  (ret.op = "toJSON" /\ RootKept)
    => /\ parse(ret.result) # SyntaxError
       /\ LET T2 == TreeAddAll(NewTree(heap[root].value), f_addEq, f_addComp,
                               parse(ret.result), 1)
          IN /\ T2.count = count
             /\ TreeToJSON(T2.heap, T2.root) = ret.result

RECURSIVE Below(_, _)
\* n and the nodes that can be reached from n through children
Below(h, n) == {n} \cup UNION {Below(h, h[n].children[k]) : k \in 1..Len(h[n].children)}

\* the number of parent links from n up to the topmost ancestor
Depth(h, n) == Cardinality(SelfAndAncestors(h, n)) - 1

\* where n stands in the sequence s (n occurs in s)
Pos(s, n) == CHOOSE k \in 1..Len(s) : s[k] = n

\* C18: iterating the tree ends and yields every node reachable from the root
\* exactly once, breadth first: the root first, the nodes in non-decreasing
\* depth, the children of a node in their children order (and the children
\* of an earlier node before those of a later one).
C18_IterationIsBreadthFirst ==
  ret.op = "iterate"
    => LET it == ret.result IN
       /\ it[1] = root
       /\ Elements(it) = Below(heap, root)
       /\ \A i, j \in 1..Len(it) : i < j
            => /\ it[i] # it[j]
               /\ Depth(heap, it[i]) <= Depth(heap, it[j])
               /\ \A a \in 1..Len(heap[it[i]].children), b \in 1..Len(heap[it[j]].children) :
                    Pos(it, heap[it[i]].children[a]) < Pos(it, heap[it[j]].children[b])
       /\ \A i \in 1..Len(it) : \A a, b \in 1..Len(heap[it[i]].children) : a < b
            => Pos(it, heap[it[i]].children[a]) < Pos(it, heap[it[i]].children[b])

\* the tree has been iterated when a node of the first level with a child
\* stood before a sibling: the sibling was yielded before the child
C18_Witness ==
  /\ ret.op = "iterate"
  /\ \E a, b \in Elements(ret.result) :
       /\ heap[a].parent = root /\ heap[b].parent = root
       /\ heap[a].children # <<>>
       /\ Pos(heap[root].children, a) < Pos(heap[root].children, b)
       /\ Pos(ret.result, b) < Pos(ret.result, heap[a].children[1])

\* the nodes of the tree that have the id
WithId(id) == {m \in Below(heap, root) : heap[m].id = id}

\* C19: node(id) returns a node with that id exactly when a node reachable
\* from the root has it, and undefined otherwise; of several such nodes it
\* returns the first in breadth-first order.
C19_NodeById ==
  \A id \in 0..MaxNodes :
    LET n == TreeNodeById(heap, root, id) IN
    /\ (n # NoNode) <=> (WithId(id) # {})
    /\ n # NoNode
         => /\ n \in WithId(id)
            /\ \A m \in WithId(id) :
                 /\ Pos(Iterator(heap, root), n) <= Pos(Iterator(heap, root), m)
                 /\ Depth(heap, n) <= Depth(heap, m)

\* the caller holds the node that node(id) returned for an id two nodes of
\* the tree have
C19_Witness ==
  \E id \in 0..MaxNodes :
    /\ Cardinality(WithId(id)) = 2
    /\ held = {TreeNodeById(heap, root, id)}

\* how many times n occurs in the sequence s
Occurrences(s, n) == Cardinality({k \in 1..Len(s) : s[k] = n})

\* C20: traverseAsync(visitor, root) calls the visitor exactly once with every
\* node of the subtree of root, root included, and with no other node, however
\* the visitor tasks interleave.
C20_TraverseAsyncVisitsSubtreeOnce ==
  ret.op = "traverseAsync"
    => \A n \in 1..Len(heap) :
         Occurrences(ret.invoked, n) = IF n \in Below(heap, ret.root) THEN 1 ELSE 0

\* a traversal is under way or has ended and the caller has not gone on yet
Traversing == ret.op = "traverseAsync"

\* the promise of the traversal has settled this way
Promised(outcome) == Traversing /\ state(ret) = outcome

\* the visitor tasks of the nodes in the subtree of the start node
SubtreeTasks == {task \in 1..Len(ret.invoked) : ret.invoked[task] \in Below(heap, ret.root)}

\* every visitor of the subtree was invoked and has completed without failure
AllVisitorsCompleted ==
  /\ Traversing
  /\ \A n \in Below(heap, ret.root) : Occurrences(ret.invoked, n) = 1
  /\ SubtreeTasks \cap (ret.running \cup ret.failed) = {}

\* C21: traverseAsync completes successfully only after every visitor
\* invocation in the subtree has completed, and when every visitor invocation
\* has completed without failure traverseAsync eventually completes.
C21_CompletesAfterAllVisitors ==
  /\ [](Promised("fulfilled") => AllVisitorsCompleted)
  /\ (AllVisitorsCompleted ~> Promised("fulfilled"))

\* a traversal of three nodes or more has completed successfully
C21_Witness ==
  /\ Promised("fulfilled")
  /\ Cardinality(Below(heap, ret.root)) >= 3

\* C22: when a visitor invocation fails, traverseAsync fails towards its
\* caller, and nothing is cancelled or rolled back: the visitor has been
\* invoked for every node of the subtree, and every other invocation goes on
\* running until it completes or fails by itself (no step takes more than one
\* task out of the running ones, the settling of a promise takes none, and a
\* running task can always complete).
C22_FailureRejectsAndCancelsNothing ==
  /\ []((Traversing /\ ret.failed # {})
         => /\ ~Promised("fulfilled")
            /\ \A n \in Below(heap, ret.root) : Occurrences(ret.invoked, n) = 1
            /\ ret.running # {} => ENABLED traverserDone)
  /\ [][(Traversing /\ Traversing')
          => /\ ret'.invoked = ret.invoked
             /\ ret.failed \subseteq ret'.failed
             /\ ret'.running \subseteq ret.running
             /\ Cardinality(ret.running \ ret'.running) <= 1
             /\ ret'.promise # ret.promise => ret'.running = ret.running]_vars
  /\ ((Traversing /\ ret.failed # {}) ~> Promised("rejected"))

\* the traversal has failed towards its caller because of one visitor, and
\* the other two visitors or more have completed
C22_Witness ==
  /\ Promised("rejected")
  /\ Cardinality(ret.failed) = 1
  /\ ret.running = {}
  /\ Len(ret.invoked) >= 3

\* a step of add or remove that changed the tree (node() and nodeByValue()
\* change what the caller holds, the setters and the queries nothing of these)
TreeChanged == held' = held /\ <<heap, root, count>>' # <<heap, root, count>>

\* C23: comp() and eq() replace the search predicates, which the next has,
\* nodeByValue, branch, branchAll and remove call uses, and change neither the
\* tree nor the insertion predicates: add goes on placing values by the
\* insertion predicates; onAdd() replaces the insertion predicates only.
C23_SettersReplaceOnlyTheirPredicates ==
  /\ [][(f_comp' # f_comp \/ f_eq' # f_eq)
          => UNCHANGED <<heap, root, count, f_addComp, f_addEq>>]_vars
  /\ [][(f_addComp' # f_addComp \/ f_addEq' # f_addEq)
          => UNCHANGED <<heap, root, count, f_comp, f_eq>>]_vars
  /\ [][(TreeChanged /\ last'.op = "add")
          => \E value \in Values :
               LET st == TreeAdd(TreeState, f_addEq, f_addComp, value, root)
               IN heap' = Gc(st.heap, {st.root} \cup held') /\ count' = st.count]_vars
  /\ [][(TreeChanged /\ last'.op = "remove")
          => \E value \in Values :
               LET st == TreeRemove(TreeState, f_eq, f_comp, value, root)
               IN heap' = Gc(st.heap, {st.root} \cup held') /\ count' = st.count]_vars
  /\ [][held' # held
          => \E value \in Values :
               held' \ held \subseteq {TreeNodeByValue(heap, f_eq, f_comp, value, root)}]_vars
  /\ [](ret.op = "has"
         => ret.result = TreeHas(heap, f_eq, f_comp, ret.value, root, f_eq, f_comp))
  /\ [](ret.op = "branch"
         => ret.result = TreeBranch(heap, f_eq, f_comp, ret.value, root,
                                    <<heap[root].value>>))
  /\ [](ret.op = "branchAll"
         => ret.result = TreeBranchAll(heap, f_eq, f_comp, ret.value, root,
                                       <<heap[root].value>>,
                                       Holds(f_eq, heap, root, ret.value)))

\* the search predicates differ from the insertion predicates and a query
\* gives another result than it would with the insertion predicates
C23_Witness ==
  /\ f_comp # f_addComp
  /\ f_eq # f_addEq
  /\ ret.op = "has"
  /\ ret.result # TreeHas(heap, f_addEq, f_addComp, ret.value, root, f_addEq, f_addComp)

\* C24: after any sequence of add, remove and clear, with any node of the
\* tree passed as `root`, every node's childCount is the length of its
\* children and is not negative.
C24_ChildCountIsLength ==
  \A n \in Live :
    /\ heap[n].childCount = Len(heap[n].children)
    /\ heap[n].childCount >= 0

\* a remove that was given a node other than the tree root has taken a child
\* out of a node that keeps another child
C24_Witness ==
  /\ last.op = "remove"
  /\ last.root # root
  /\ log # <<>>
  /\ log[1].parent \in Live
  /\ heap[log[1].parent].childCount >= 1

\* nothing is left to remove below n: no child of n satisfies the equality
\* predicate for value, and the same holds below every child that satisfies
\* the traversal predicate
RECURSIVE Searched(_, _, _, _, _)
Searched(h, feq, fcomp, value, n) ==
  \A k \in 1..Len(h[n].children) :
    LET child == h[n].children[k] IN
    /\ ~Holds(feq, h, child, value)
    /\ Holds(fcomp, h, child, value) => Searched(h, feq, fcomp, value, child)

\* the step is the call remove(value, r)
IsRemove(value, r) ==
  LET st == TreeRemove(TreeState, f_eq, f_comp, value, r) IN
  /\ last' = Op("remove", r)
  /\ UNCHANGED <<held, f_eq, f_comp, f_addEq, f_addComp>>
  /\ heap' = Gc(st.heap, {st.root} \cup held)
  /\ root' = st.root
  /\ count' = st.count

\* C25: after remove(value, root) on a root that does not itself satisfy the
\* equality predicate, no direct child of root satisfies it for value, and
\* every remaining direct child that satisfies the traversal predicate has
\* been searched in the same way.
C25_RemoveSearchesEveryChild ==
  [][\A value \in Values, r \in Live :
       (IsRemove(value, r) /\ ~Holds(f_eq, heap, r, value))
         => Searched(heap', f_eq, f_comp, value, r)]_vars

\* C26: for every value and every start node, has(value, root) is true
\* exactly when nodeByValue(value, root) returns a node, and the node
\* nodeByValue returns satisfies the equality predicate for value and lies in
\* the subtree of root.
C26_HasIsNodeByValue ==
  /\ ret.op = "has"
       => ret.result = (TreeNodeByValue(heap, f_eq, f_comp, ret.value, ret.root) # NoNode)
  /\ \A value \in Values, r \in Live :
       LET n == TreeNodeByValue(heap, f_eq, f_comp, value, r) IN
       /\ TreeHas(heap, f_eq, f_comp, value, r, f_eq, f_comp) = (n # NoNode)
       /\ n # NoNode => Holds(f_eq, heap, n, value) /\ n \in Below(heap, r)

\* has, started at a node with children, found nothing, although a node of
\* the subtree holds the value: nodeByValue returns no node either
C26_Witness ==
  /\ ret.op = "has"
  /\ ~ret.result
  /\ heap[ret.root].children # <<>>
  /\ \E n \in Below(heap, ret.root) : Holds(f_eq, heap, n, ret.value)

\* C27: for any two (different) nodes n and p of the tree, after any sequence
\* of add and remove, n.childOf(p) is true exactly when p is the parent node
\* of n, and p.parentOf(n) exactly when n is one of the children of p.
C27_ChildOfAndParentOf ==
  /\ (ret.op = "childOf" /\ ret.this # ret.node)
       => ret.result = (heap[ret.this].parent = ret.node)
  /\ (ret.op = "parentOf" /\ ret.this # ret.node)
       => ret.result = (ret.node \in Elements(heap[ret.this].children))

\* the search predicates are the insertion predicates
SamePredicates == f_eq = f_addEq /\ f_comp = f_addComp

\* the step is the call add(value) from the tree root
IsAdd(value) ==
  LET st == TreeAdd(TreeState, f_addEq, f_addComp, value, root) IN
  /\ last' = Op("add", root)
  /\ UNCHANGED <<held, f_eq, f_comp, f_addEq, f_addComp>>
  /\ heap' = Gc(st.heap, {st.root} \cup held)
  /\ root' = st.root
  /\ count' = st.count

\* has(value) on the tree as it is before, or after, the step
HasNow(value) == TreeHas(heap, f_eq, f_comp, value, root, f_eq, f_comp)

HasNext(value) == TreeHas(heap', f_eq', f_comp', value, root', f_eq', f_comp')

\* C28: when the search predicates are the insertion predicates, has(v) is
\* true right after add(v), in every reachable state of the tree, and an add
\* from the tree root never makes has(v) false for a value it was true for.
C28_HasAfterAdd ==
  [][\A value \in Values :
       (SamePredicates /\ IsAdd(value))
         => /\ HasNext(value)
            /\ \A v \in Values : HasNow(v) => HasNext(v)]_vars

\* has(v) is asked right after an add, with search predicates that are the
\* insertion predicates, and finds the value two levels down in a tree whose
\* root has two children
C28_Witness ==
  /\ ret.op = "has"
  /\ ret.result
  /\ last.op = "add"
  /\ SamePredicates
  /\ Len(heap[root].children) >= 2
  /\ Depth(heap, TreeNodeByValue(heap, f_eq, f_comp, ret.value, root)) >= 2

\* C29: right after remove(v) from the tree root has(v) is false, in every
\* state of the tree reached by add, from the tree root or from a node below
\* it, and remove.
C29_RemovedValueIsGone ==
  [][\A value \in Values : IsRemove(value, root) => ~HasNext(value)]_vars

\* C30: traverseAsync starts every visitor invocation of the subtree without
\* waiting for another visitor to complete: when it returns its promise the
\* visitor has been invoked with every node of the subtree and all these
\* invocations are outstanding, and none is started later.
C30_AllVisitorsStartAtOnce ==
  /\ [][(~Traversing /\ Traversing')
          => /\ \A n \in Below(heap', ret'.root) : Occurrences(ret'.invoked, n) = 1
             /\ ret'.running = 1..Len(ret'.invoked)
             /\ ret'.failed = {}
             /\ state(ret') = "pending"]_vars
  /\ [][(Traversing /\ Traversing') => ret'.invoked = ret.invoked]_vars

\* the visitor invocations of a subtree of three nodes or more, on two levels
\* or more, are all outstanding
C30_Witness ==
  /\ Traversing
  /\ Cardinality(Below(heap, ret.root)) >= 3
  /\ \E n \in Below(heap, ret.root) : heap[n].parent # NoNode /\ heap[n].parent # ret.root
  /\ ret.running = 1..Len(ret.invoked)
  /\ \A n \in Below(heap, ret.root) : Occurrences(ret.invoked, n) = 1

====
